---- MODULE Spec2Model ----
(***************************************************************************)
(* Model of soptx/regularization/matrix_builder.py: FilterMatrixBuilder.   *)
(*                                                                         *)
(* Numbers.  A length (spacing, radius, coordinate) is either an integer   *)
(* in one common length unit (a spacing of 1 and a radius of 1.1 are       *)
(* FineH = 10 and FineR = 11 tenths) or a float64.  The arithmetic of the  *)
(* assemblers follows the operands.  With a float64 among the operands     *)
(* every operation is the IEEE 754 binary64 one: the exact result rounded  *)
(* to the nearest float64, ties to even, an int operand converted first,   *)
(* as Python converts it.  hx**2 of a float64 is the C library's pow,      *)
(* which need not round to nearest: the math variants take its value from  *)
(* the float64 numbers pow may return.  When the radius and the spacings   *)
(* are all integers the products, sums and differences are the exact       *)
(* integers, as they are in float64 for operands of this size; a weight    *)
(* rmin - sqrt(d2) is then written as a fixed-point number in units of     *)
(* 1/Prec of the length unit, rounded to nearest, and the test fac > 0 is  *)
(* decided exactly.  Exponent overflow and underflow, infinities and NaN   *)
(* are left out.                                                           *)
(*                                                                         *)
(* Batching.  The cap of batch_size, the literal 10000 of the source, is   *)
(* an input of the assemblers here, so that small grids split into         *)
(* several batches.                                                        *)
(*                                                                         *)
(* Entry points.  build() always calls the general assembler with its      *)
(* default periodic argument; CallGeneral is the call of                   *)
(* _compute_filter_general with periodic given.  ParSpec is the builder    *)
(* with the iterations of the batch loops taken in any order.              *)
(*                                                                         *)
(* Sparse tensors.  COOTensor, CSRTensor and bm.query_point come from the  *)
(* fealpy library, which is not part of the source tree.  The tensor       *)
(* operations the builder calls (construction from triplets, tocsr, the    *)
(* product with a vector of ones) are written from section 4.4 of the      *)
(* specification: every stored entry is kept and entries at one            *)
(* coordinate add up.                                                      *)
(***************************************************************************)
EXTENDS Integers, Sequences, FiniteSets, Bags, TLC

\* ------------------------------------------------------------------ bounds
MaxN2 == 3
MaxN3 == 2
MaxCells3 == 8
MaxH == 2
MaxR == 3
MaxCoord == 2
MaxPts == 3
MaxBatchCap == 2
MaxLen == 4
MaxBatches == 3
FineH == 10
FineR == 11
Prec == 100
MaxFloatN == 4
MaxTenths == 1

\* float64: the bits of the significand, and the exponent bias that makes
\* the exponent of an integer significand positive
MantBits == 53
ExpBias == 1075
\* big natural numbers are held in limbs of LimbBits bits
LimbBits == 15
LimbBase == 32768
\* pow is accurate to a little more than half a unit in the last place: its
\* result is the nearest float64 unless the exact power lies within
\* 2^-(PowSlackBits + 1) units of the middle between two float64
PowSlackBits == 4

\* the literal of `batch_size = min(10000, ...)`
BatchLimit == 10000

\* -------------------------------------------------------------- arithmetic
Min(a, b) == IF a <= b THEN a ELSE b
Max(a, b) == IF a >= b THEN a ELSE b
Abs(a) == IF a >= 0 THEN a ELSE 0 - a

\* ------------------------------------------------- big natural numbers
\* A natural number of any size is the sequence of its limbs, the lowest
\* first, without leading zero limbs.
RECURSIVE Trim(_)
Trim(a) == IF a = <<>> \/ a[Len(a)] # 0 THEN a ELSE Trim(SubSeq(a, 1, Len(a) - 1))

Limb(a, k) == IF k <= Len(a) THEN a[k] ELSE 0

RECURSIVE BigFromInt(_)
BigFromInt(n) == IF n = 0 THEN <<>> ELSE <<n % LimbBase>> \o BigFromInt(n \div LimbBase)

RECURSIVE BigToInt(_)
BigToInt(a) == IF a = <<>> THEN 0 ELSE a[1] + LimbBase * BigToInt(Tail(a))

RECURSIVE BigCmpAt(_, _, _)
BigCmpAt(a, b, k) ==
    IF k = 0 THEN 0
    ELSE IF Limb(a, k) < Limb(b, k) THEN 0 - 1
    ELSE IF Limb(a, k) > Limb(b, k) THEN 1
    ELSE BigCmpAt(a, b, k - 1)

BigCmp(a, b) == BigCmpAt(a, b, Max(Len(a), Len(b)))

RECURSIVE BigAddAt(_, _, _, _)
BigAddAt(a, b, k, carry) ==
    IF k > Max(Len(a), Len(b)) THEN (IF carry = 0 THEN <<>> ELSE <<carry>>)
    ELSE LET s == Limb(a, k) + Limb(b, k) + carry
         IN  <<s % LimbBase>> \o BigAddAt(a, b, k + 1, s \div LimbBase)

BigAdd(a, b) == Trim(BigAddAt(a, b, 1, 0))

RECURSIVE BigSubAt(_, _, _, _)
BigSubAt(a, b, k, borrow) ==
    IF k > Len(a) THEN <<>>
    ELSE LET d == Limb(a, k) - Limb(b, k) - borrow
         IN  IF d < 0 THEN <<d + LimbBase>> \o BigSubAt(a, b, k + 1, 1)
                      ELSE <<d>> \o BigSubAt(a, b, k + 1, 0)

\* a - b for a >= b
BigSub(a, b) == Trim(BigSubAt(a, b, 1, 0))

RECURSIVE BigMulLimbAt(_, _, _, _)
BigMulLimbAt(a, d, k, carry) ==
    IF k > Len(a) THEN (IF carry = 0 THEN <<>> ELSE <<carry>>)
    ELSE LET p == a[k] * d + carry
         IN  <<p % LimbBase>> \o BigMulLimbAt(a, d, k + 1, p \div LimbBase)

BigMulLimb(a, d) == Trim(BigMulLimbAt(a, d, 1, 0))

RECURSIVE BigMulAt(_, _, _)
BigMulAt(a, b, k) ==
    IF k > Len(b) THEN <<>>
    ELSE BigAdd(BigMulLimb(a, b[k]), <<0>> \o BigMulAt(a, b, k + 1))

BigMul(a, b) == BigMulAt(a, b, 1)

\* a * 2^n
BigShl(a, n) ==
    IF a = <<>> THEN <<>>
    ELSE [k \in 1..(n \div LimbBits) |-> 0] \o BigMulLimb(a, 2 ^ (n % LimbBits))

\* a \div 2^n
BigShr(a, n) ==
    LET q == n \div LimbBits
        r == n % LimbBits
    IN  Trim([k \in 1..Max(0, Len(a) - q) |->
                (Limb(a, k + q) \div (2 ^ r))
                + (Limb(a, k + q + 1) % (2 ^ r)) * (2 ^ (LimbBits - r))])

\* bit n of a, bit 0 the lowest
BigBit(a, n) == (Limb(a, (n \div LimbBits) + 1) \div (2 ^ (n % LimbBits))) % 2

\* whether a % 2^n is not zero
BigLowBits(a, n) ==
    \/ \E k \in 1..Min(Len(a), n \div LimbBits) : a[k] # 0
    \/ Limb(a, (n \div LimbBits) + 1) % (2 ^ (n % LimbBits)) # 0

RECURSIVE SmallBitLen(_)
SmallBitLen(d) == IF d = 0 THEN 0 ELSE 1 + SmallBitLen(d \div 2)

\* the number of bits of a (a without leading zero limbs)
BigBitLen(a) ==
    IF a = <<>> THEN 0 ELSE LimbBits * (Len(a) - 1) + SmallBitLen(a[Len(a)])

\* the digits `digits` with the one at place pos (0 the lowest) set to q
WithDigit(digits, pos, q) ==
    [k \in 1..Len(digits) |-> IF k = pos + 1 THEN q ELSE digits[k]]

\* the largest q in lo..hi for which WithDigit(quo, pos, q) * d <= n
RECURSIVE QuotientDigit(_, _, _, _, _, _)
QuotientDigit(n, d, quo, pos, lo, hi) ==
    IF lo >= hi THEN lo
    ELSE LET mid == (lo + hi + 1) \div 2
         IN  IF BigCmp(BigMul(Trim(WithDigit(quo, pos, mid)), d), n) <= 0
             THEN QuotientDigit(n, d, quo, pos, mid, hi)
             ELSE QuotientDigit(n, d, quo, pos, lo, mid - 1)

\* the digits of n \div d, found from place pos down
RECURSIVE BigDivAt(_, _, _, _)
BigDivAt(n, d, quo, pos) ==
    IF pos < 0 THEN quo
    ELSE BigDivAt(n, d,
                  WithDigit(quo, pos, QuotientDigit(n, d, quo, pos, 0, LimbBase - 1)),
                  pos - 1)

QuoRem(n, d, quo) == <<quo, BigSub(n, BigMul(quo, d))>>

\* quotient and remainder of n by d, d > 0
BigDivMod(n, d) ==
    QuoRem(n, d, Trim(BigDivAt(n, d, [k \in 1..Len(n) |-> 0], Len(n) - 1)))

\* the largest q in lo..hi for which WithDigit(root, pos, q)^2 <= n
RECURSIVE RootDigit(_, _, _, _, _)
RootDigit(n, root, pos, lo, hi) ==
    IF lo >= hi THEN lo
    ELSE LET mid == (lo + hi + 1) \div 2
             t == Trim(WithDigit(root, pos, mid))
         IN  IF BigCmp(BigMul(t, t), n) <= 0
             THEN RootDigit(n, root, pos, mid, hi)
             ELSE RootDigit(n, root, pos, lo, mid - 1)

RECURSIVE BigSqrtAt(_, _, _)
BigSqrtAt(n, root, pos) ==
    IF pos < 0 THEN root
    ELSE BigSqrtAt(n, WithDigit(root, pos, RootDigit(n, root, pos, 0, LimbBase - 1)),
                   pos - 1)

\* the integer square root of n
BigSqrt(n) ==
    LET m == (Len(n) + 1) \div 2
    IN  Trim(BigSqrtAt(n, [k \in 1..m |-> 0], m - 1))

\* ------------------------------------------------------------ float64
\* A float64 is sign * man * 2^exp with man a natural number of exactly
\* MantBits bits, or zero.  It is held as the tuple of its sign (1 plus, 2
\* minus), its exponent raised by ExpBias and the limbs of man each raised
\* by one: a tuple of positive integers, which IsABag tells from an integer.
F64Make(sign, man, exp) ==
    <<IF sign > 0 THEN 1 ELSE 2, exp + ExpBias>> \o [k \in 1..Len(man) |-> man[k] + 1]

F64Sign(a) == IF a[1] = 1 THEN 1 ELSE 0 - 1
F64Exp(a) == a[2] - ExpBias
F64Man(a) == [k \in 1..(Len(a) - 2) |-> a[k + 2] - 1]
F64Zero == F64Make(1, <<>>, 0)
IsF64(x) == IsABag(x)

\* sign * q * 2^e for q of MantBits bits, or of one more after a carry
F64Renorm(sign, q, e) ==
    IF BigBitLen(q) > MantBits THEN F64Make(sign, BigShr(q, 1), e + 1)
                               ELSE F64Make(sign, q, e)

\* whether M, cut to q = M \div 2^s, rounds up: the part cut off is more
\* than half a unit of q, or exactly half and q is odd
RoundsUp(M, s, q, sticky) ==
    /\ BigBit(M, s - 1) = 1
    /\ (sticky \/ BigLowBits(M, s - 1) \/ BigBit(q, 0) = 1)

F64Shorten(sign, M, E, sticky, s, q) ==
    F64Renorm(sign, IF RoundsUp(M, s, q, sticky) THEN BigAdd(q, <<1>>) ELSE q, E + s)

F64RoundTo(sign, M, E, sticky, L) ==
    IF L = 0 THEN F64Zero
    ELSE IF L <= MantBits
    THEN F64Make(sign, BigShl(M, MantBits - L), E - (MantBits - L))
    ELSE F64Shorten(sign, M, E, sticky, L - MantBits, BigShr(M, L - MantBits))

\* sign * M * 2^E (plus a nonzero amount below one unit of M when sticky)
\* rounded to the nearest float64, ties to even
F64Round(sign, M, E, sticky) == F64RoundTo(sign, M, E, sticky, BigBitLen(M))

F64FromInt(n) == F64Round(IF n < 0 THEN 0 - 1 ELSE 1,
                          BigFromInt(IF n < 0 THEN 0 - n ELSE n), 0, FALSE)

F64Neg(a) == IF F64Man(a) = <<>> THEN a ELSE F64Make(0 - F64Sign(a), F64Man(a), F64Exp(a))

F64Mul(a, b) ==
    IF F64Man(a) = <<>> \/ F64Man(b) = <<>> THEN F64Zero
    ELSE F64Round(F64Sign(a) * F64Sign(b), BigMul(F64Man(a), F64Man(b)), F64Exp(a) + F64Exp(b), FALSE)

\* (sa * A + sb * B) * 2^e rounded: the sign of the sum and its magnitude
F64AddAligned(sa, A, sb, B, e) ==
    F64Round(IF sa = sb \/ BigCmp(A, B) >= 0 THEN sa ELSE sb,
             IF sa = sb THEN BigAdd(A, B)
             ELSE IF BigCmp(A, B) >= 0 THEN BigSub(A, B) ELSE BigSub(B, A),
             e, FALSE)

F64Add(a, b) ==
    IF F64Man(a) = <<>> THEN b
    ELSE IF F64Man(b) = <<>> THEN a
    ELSE F64AddAligned(F64Sign(a),
                       BigShl(F64Man(a), F64Exp(a) - Min(F64Exp(a), F64Exp(b))),
                       F64Sign(b),
                       BigShl(F64Man(b), F64Exp(b) - Min(F64Exp(a), F64Exp(b))),
                       Min(F64Exp(a), F64Exp(b)))

F64Sub(a, b) == F64Add(a, F64Neg(b))

F64DivRound(sign, qr, e) == F64Round(sign, qr[1], e, qr[2] # <<>>)

\* a / b: the quotient of the significands to MantBits + 3 bits or more,
\* the rest of the division kept as the sticky flag
F64Div(a, b) ==
    IF F64Man(a) = <<>> THEN F64Zero
    ELSE F64DivRound(F64Sign(a) * F64Sign(b),
                     BigDivMod(BigShl(F64Man(a), MantBits + 3), F64Man(b)),
                     F64Exp(a) - F64Exp(b) - (MantBits + 3))

\* the shift that makes the exponent even and the root long enough
SqrtShift(exp) == MantBits + 5 + ((exp + MantBits + 5) % 2)

F64RootRound(n, r, e) == F64Round(1, r, e, BigMul(r, r) # n)
F64SqrtOf(n, e) == F64RootRound(n, BigSqrt(n), e)

F64Sqrt(a) ==
    IF F64Man(a) = <<>> THEN F64Zero
    ELSE F64SqrtOf(BigShl(F64Man(a), SqrtShift(F64Exp(a))),
                   (F64Exp(a) - SqrtShift(F64Exp(a))) \div 2)

\* math.ceil of a float64, an integer
F64Ceil(a) ==
    IF F64Man(a) = <<>> THEN 0
    ELSE IF F64Exp(a) >= 0 THEN F64Sign(a) * BigToInt(BigShl(F64Man(a), F64Exp(a)))
    ELSE LET whole == BigToInt(BigShr(F64Man(a), 0 - F64Exp(a)))
             frac  == BigLowBits(F64Man(a), 0 - F64Exp(a))
         IN  IF F64Sign(a) > 0 THEN whole + (IF frac THEN 1 ELSE 0) ELSE 0 - whole

F64Positive(a) == F64Man(a) # <<>> /\ F64Sign(a) > 0

\* the PowSlackBits + 1 highest bits of the s bits cut off M
CutHead(M, s) ==
    Limb(BigShr(M, s - 1 - PowSlackBits), 1) % (2 ^ (PowSlackBits + 1))

\* 1 * M * 2^E as pow may return it, q = M \div 2^s being M cut to MantBits
\* bits: the nearest float64, or either neighbour when M lies within
\* 2^-(PowSlackBits + 1) units of q from the middle between the two
F64PowRound(M, E, s, q) ==
    IF CutHead(M, s) \in {2 ^ PowSlackBits - 1, 2 ^ PowSlackBits}
    THEN {F64Renorm(1, q, E + s), F64Renorm(1, BigAdd(q, <<1>>), E + s)}
    ELSE {F64Round(1, M, E, FALSE)}

\* a ** 2 of a float64: the values the C library's pow(a, 2.0) may return
F64Pow2(a) ==
    IF F64Man(a) = <<>> THEN {F64Zero}
    ELSE LET M == BigMul(F64Man(a), F64Man(a))
         IN  F64PowRound(M, 2 * F64Exp(a), BigBitLen(M) - MantBits,
                         BigShr(M, BigBitLen(M) - MantBits))

\* the float64 nearest to the decimal p / q
Decimal(p, q) == F64Div(F64FromInt(p), F64FromInt(q))


\* float(x) of Python
ToF64(x) == IF IsF64(x) THEN x ELSE F64FromInt(x)

\* --------------------------------------- arithmetic of the assemblers
\* a * b, a + b, a - b and a < b of Python numbers
Mul(a, b) == IF IsF64(a) \/ IsF64(b) THEN F64Mul(ToF64(a), ToF64(b)) ELSE a * b
Add(a, b) == IF IsF64(a) \/ IsF64(b) THEN F64Add(ToF64(a), ToF64(b)) ELSE a + b
Sub(a, b) == IF IsF64(a) \/ IsF64(b) THEN F64Sub(ToF64(a), ToF64(b)) ELSE a - b
Less(a, b) ==
    IF IsF64(a) \/ IsF64(b) THEN F64Positive(F64Sub(ToF64(b), ToF64(a))) ELSE a < b

\* whether two numbers are of one kind and equal
SameNumber(a, b) == IsF64(a) = IsF64(b) /\ a = b

\* h ** 2: of an int the exact int, of a float64 what pow may return
Pow2(h) == IF IsF64(h) THEN F64Pow2(h) ELSE {h * h}

\* min(a, b) and max(a, b) of Python: the first argument unless the second
\* is strictly smaller (larger)
Smaller(a, b) == IF Less(b, a) THEN b ELSE a
Larger(a, b) == IF Less(a, b) THEN b ELSE a

\* a quotient rounded down instead of up
Ceil_floor(a, b) == a \div b

\* math.ceil(a / b) for b > 0
Ceil(a, b) ==
    IF IsF64(a) \/ IsF64(b) THEN F64Ceil(F64Div(ToF64(a), ToF64(b)))
    ELSE 0 - ((0 - a) \div b)

RECURSIVE SqrtSearch(_, _, _)
SqrtSearch(n, lo, hi) ==
    IF lo >= hi THEN lo
    ELSE LET mid == (lo + hi + 1) \div 2
         IN  IF mid * mid <= n THEN SqrtSearch(n, mid, hi)
                               ELSE SqrtSearch(n, lo, mid - 1)

\* sqrt(d2): of a float64 the float64 square root, of an integer a
\* fixed-point number rounded to nearest
Sqrt(d2) ==
    IF IsF64(d2) THEN F64Sqrt(d2)
    ELSE IF d2 = 0 THEN 0
    ELSE LET whole == SqrtSearch(d2, 0, d2)
         IN  (SqrtSearch(4 * d2 * Prec * Prec,
                         2 * Prec * whole, 2 * Prec * (whole + 1)) + 1) \div 2

\* a length as a weight: a float64 as it is, an integer as a fixed-point
\* number
Fix(a) == IF IsF64(a) THEN a ELSE a * Prec

\* rmin - sqrt(squared_dists).  With a float64 among the two the float64
\* operations, an int converted first; of two integers the fixed-point
\* number
Factor(rmin, squared_dists) ==
    IF IsF64(rmin) \/ IsF64(squared_dists)
    THEN F64Sub(ToF64(rmin), F64Sqrt(ToF64(squared_dists)))
    ELSE Fix(rmin) - Sqrt(squared_dists)

\* the test fac > 0 on fac = rmin - sqrt(squared_dists).  On integers the
\* float64 root of squared_dists is below rmin exactly when squared_dists
\* is below rmin * rmin, whatever the fixed-point rounding of fac.
Positive(rmin, squared_dists, fac) ==
    IF IsF64(fac) THEN F64Positive(fac)
    ELSE rmin > 0 /\ squared_dists < rmin * rmin

\* the candidates <<row, col, val, keep>> with keep set, as triplets
Valid(cand) ==
    LET kept == SelectSeq(cand, LAMBDA t : t[4])
    IN  [n \in 1..Len(kept) |-> <<kept[n][1], kept[n][2], kept[n][3]>>]

\* -------------------------------------------------- sparse tensors (fealpy)
\* A coordinate list is a sequence of triplets <<row, col, val>>: the three
\* parallel arrays iH, jH, sH.  The tensors are the library's; what they do
\* with the triplets is taken from section 4.4 of the specification:
\* entries at one coordinate add up, the conversion groups the entries by
\* row, and a product with the all-ones vector adds the entries of a row.

\* COOTensor @ ones: scatter-add of every stored value into its row
RECURSIVE ScatterAdd(_, _, _, _)
ScatterAdd(coo, lo, hi, n) ==
    IF lo > hi THEN [i \in 0..(n - 1) |-> 0]
    ELSE IF lo = hi THEN [i \in 0..(n - 1) |-> IF i = coo[lo][1] THEN coo[lo][3] ELSE 0]
    ELSE LET mid == (lo + hi) \div 2
             a == ScatterAdd(coo, lo, mid, n)
             b == ScatterAdd(coo, mid + 1, hi, n)
         IN  [i \in 0..(n - 1) |-> Add(a[i], b[i])]

CooMatVecOnes(coo, n) == ScatterAdd(coo, 1, Len(coo), n)

RowOf(coo, r) == SelectSeq(coo, LAMBDA t : t[1] = r)

RECURSIVE CsrBody(_, _, _)
CsrBody(coo, r, n) ==
    IF r >= n THEN <<>> ELSE RowOf(coo, r) \o CsrBody(coo, r + 1, n)

CountRowsBelow(coo, r) == Cardinality({k \in 1..Len(coo) : coo[k][1] < r})

\* COOTensor.tocsr(): entries grouped by row, every stored entry kept
ToCsr(coo, n) ==
    LET body == CsrBody(coo, 0, n)
    IN  [n    |-> n,
         crow |-> [r \in 0..n |-> CountRowsBelow(coo, r)],
         col  |-> [k \in 1..Len(body) |-> body[k][2]],
         val  |-> [k \in 1..Len(body) |-> body[k][3]]]

RECURSIVE SumRange(_, _, _)
SumRange(v, lo, hi) == IF lo > hi THEN 0 ELSE Add(v[lo], SumRange(v, lo + 1, hi))

\* CSRTensor @ ones: per row, the sum of the stored values of that row
CsrMatVecOnes(csr) ==
    [i \in 0..(csr.n - 1) |-> SumRange(csr.val, csr.crow[i] + 1, csr.crow[i + 1])]

RECURSIVE SumAt(_, _, _, _)
SumAt(csr, j, lo, hi) ==
    IF lo > hi THEN 0
    ELSE Add(IF csr.col[lo] = j THEN csr.val[lo] ELSE 0, SumAt(csr, j, lo + 1, hi))

\* the value of H[i, j]: stored entries at one coordinate add up
Entry(csr, i, j) == SumAt(csr, j, csr.crow[i] + 1, csr.crow[i + 1])

\* how many entries are stored at (i, j)
Stored(csr, i, j) ==
    Cardinality({k \in (csr.crow[i] + 1)..csr.crow[i + 1] : csr.col[k] = j})

NoMatrix == [n |-> 0, crow |-> [r \in 0..0 |-> 0], col |-> <<>>, val |-> <<>>]

\* ------------------------------------------------ structured 2D assembler
\* the first axis taken as the fastest one
linear_to_2d_colmajor(linear_idx, ny) == <<linear_idx % ny, linear_idx \div ny>>

linear_to_2d(linear_idx, ny) == <<linear_idx \div ny, linear_idx % ny>>

\* a column number with the two indices exchanged
to_linear_2d_swapped(ii, jj, ny) == jj * ny + ii

\* `col = ii * ny + jj`
to_linear_2d(ii, jj, ny) == ii * ny + jj

\* all_coords[idx] of _compute_filter_2d
AllCoords2D(idx, ny, hx, hy) ==
    LET ij == linear_to_2d(idx, ny) IN <<Mul(ij[1], hx), Mul(ij[2], hy)>>

\* bounds off by one: a lower clip at 1, an upper bound taken as inclusive
SearchLo_clip1(idx, search_radius) == Max(1, idx - (search_radius - 1))
SearchHi_inclusive(extent, idx, search_radius) == Min(extent, idx + search_radius - 1)

\* lower (inclusive) and upper (exclusive) search bound on one axis
SearchLo(idx, search_radius) == Max(0, idx - (search_radius - 1))
SearchHi(extent, idx, search_radius) == Min(extent, idx + search_radius)

\* search_indices of one cell for the search radii given, in the order the
\* nested loops append them
BoxIndices2D(i, j, nx, ny, search_radius_x, search_radius_y) ==
    LET ii1 == SearchLo(i, search_radius_x)
        ii2 == SearchHi(nx, i, search_radius_x)
        jj1 == SearchLo(j, search_radius_y)
        jj2 == SearchHi(ny, j, search_radius_y)
        w   == Max(0, jj2 - jj1)
        cnt == Max(0, ii2 - ii1) * w
    IN  [n \in 1..cnt |->
            to_linear_2d(ii1 + ((n - 1) \div w), jj1 + ((n - 1) % w), ny)]

\* search_indices of one cell, with search_radius_x = ceil(rmin/hx) and
\* search_radius_y = ceil(rmin/hy)
SearchIndices2D(i, j, rmin, nx, ny, hx, hy) ==
    BoxIndices2D(i, j, nx, ny, Ceil(rmin, hx), Ceil(rmin, hy))

\* the distance taken as the larger of the two axis separations
CellTriplets2D_chebyshev(global_idx, rmin, nx, ny, hx, hy) ==
    LET ij == linear_to_2d(global_idx, ny)
        search_indices == SearchIndices2D(ij[1], ij[2], rmin, nx, ny, hx, hy)
        factor(col) ==
            LET c == linear_to_2d(col, ny)
            IN  Fix(rmin) - Fix(Max(Abs(c[1] - ij[1]) * hx, Abs(c[2] - ij[2]) * hy))
        cand == [n \in 1..Len(search_indices) |->
                    <<global_idx, search_indices[n], factor(search_indices[n])>>]
    IN  SelectSeq(cand, LAMBDA t : t[3] > 0)

\* diffs * diffs of one component
Square(d) == Mul(d, d)

\* squared_dists of one search cell: diffs = search_coords - current_coords,
\* the squares summed along the axes
SquaredDists2D(c, current) ==
    Add(Square(Sub(c[1], current[1])), Square(Sub(c[2], current[2])))

\* one search cell: row, col, factors and valid_mask
CandOf(row, col, rmin, squared_dists, factors) ==
    <<row, col, factors, Positive(rmin, squared_dists, factors)>>

Cand(row, col, rmin, squared_dists) ==
    CandOf(row, col, rmin, squared_dists, Factor(rmin, squared_dists))

\* the candidates of the cell global_idx, one per search index, and those
\* the mask factors > 0 keeps
Masked2D(global_idx, search_indices, current, rmin, ny, hx, hy) ==
    Valid([n \in 1..Len(search_indices) |->
              Cand(global_idx, search_indices[n], rmin,
                        SquaredDists2D(AllCoords2D(search_indices[n], ny, hx, hy),
                                       current))])

\* the triplets one cell of a batch contributes (rows, cols, vals together)
CellTriplets2D(global_idx, rmin, nx, ny, hx, hy) ==
    Masked2D(global_idx,
             SearchIndices2D(linear_to_2d(global_idx, ny)[1],
                             linear_to_2d(global_idx, ny)[2], rmin, nx, ny, hx, hy),
             AllCoords2D(global_idx, ny, hx, hy), rmin, ny, hx, hy)

RECURSIVE BatchTriplets2D(_, _, _, _, _, _, _)
BatchTriplets2D(g, end_idx, rmin, nx, ny, hx, hy) ==
    IF g >= end_idx THEN <<>>
    ELSE CellTriplets2D(g, rmin, nx, ny, hx, hy)
         \o BatchTriplets2D(g + 1, end_idx, rmin, nx, ny, hx, hy)

\* ------------------------------------------------ structured 3D assembler
linear_to_3d(linear_idx, ny, nz) ==
    <<linear_idx \div (ny * nz), (linear_idx % (ny * nz)) \div nz, (linear_idx % nz)>>

\* `col = kk + jj * nz + ii * ny * nz`
to_linear_3d(ii, jj, kk, ny, nz) == kk + jj * nz + ii * ny * nz

AllCoords3D(idx, ny, nz, hx, hy, hz) ==
    LET c == linear_to_3d(idx, ny, nz)
    IN  <<Mul(c[1], hx), Mul(c[2], hy), Mul(c[3], hz)>>

BoxIndices3D(i, j, k, nx, ny, nz, search_radius_x, search_radius_y, search_radius_z) ==
    LET ii1 == SearchLo(i, search_radius_x)
        ii2 == SearchHi(nx, i, search_radius_x)
        jj1 == SearchLo(j, search_radius_y)
        jj2 == SearchHi(ny, j, search_radius_y)
        kk1 == SearchLo(k, search_radius_z)
        kk2 == SearchHi(nz, k, search_radius_z)
        wk  == Max(0, kk2 - kk1)
        wj  == Max(0, jj2 - jj1)
        cnt == Max(0, ii2 - ii1) * wj * wk
    IN  [n \in 1..cnt |->
            to_linear_3d(ii1 + ((n - 1) \div (wk * wj)),
                         jj1 + (((n - 1) \div wk) % wj),
                         kk1 + ((n - 1) % wk), ny, nz)]

SearchIndices3D(i, j, k, rmin, nx, ny, nz, hx, hy, hz) ==
    BoxIndices3D(i, j, k, nx, ny, nz, Ceil(rmin, hx), Ceil(rmin, hy), Ceil(rmin, hz))

SquaredDists3D(c, current) ==
    Add(Add(Square(Sub(c[1], current[1])), Square(Sub(c[2], current[2]))),
        Square(Sub(c[3], current[3])))

Masked3D(global_idx, search_indices, current, rmin, ny, nz, hx, hy, hz) ==
    Valid([n \in 1..Len(search_indices) |->
              Cand(global_idx, search_indices[n], rmin,
                        SquaredDists3D(AllCoords3D(search_indices[n], ny, nz,
                                                   hx, hy, hz), current))])

CellTriplets3D(global_idx, rmin, nx, ny, nz, hx, hy, hz) ==
    Masked3D(global_idx,
             SearchIndices3D(linear_to_3d(global_idx, ny, nz)[1],
                             linear_to_3d(global_idx, ny, nz)[2],
                             linear_to_3d(global_idx, ny, nz)[3],
                             rmin, nx, ny, nz, hx, hy, hz),
             AllCoords3D(global_idx, ny, nz, hx, hy, hz), rmin, ny, nz, hx, hy, hz)

RECURSIVE BatchTriplets3D(_, _, _, _, _, _, _, _, _)
BatchTriplets3D(g, end_idx, rmin, nx, ny, nz, hx, hy, hz) ==
    IF g >= end_idx THEN <<>>
    ELSE CellTriplets3D(g, rmin, nx, ny, nz, hx, hy, hz)
         \o BatchTriplets3D(g + 1, end_idx, rmin, nx, ny, nz, hx, hy, hz)

\* ------------------------------------------------------------- batching
BatchSize(cap, N) == Min(cap, N)
NBatches(cap, N) == (N + BatchSize(cap, N) - 1) \div BatchSize(cap, N)
BatchStart(batch_idx, batch_size) == batch_idx * batch_size
\* a batch that runs one cell into the next
BatchEnd_overrun(batch_idx, batch_size, N) == Min((batch_idx + 1) * batch_size + 1, N)

BatchEnd(batch_idx, batch_size, N) == Min((batch_idx + 1) * batch_size, N)

\* ------------------------------------- direct ("math") reference variants
\* the sum under the square root of _compute_filter_2d_math for the index
\* differences di = i - k and dj = j - l, hx2 and hy2 being the values of
\* hx**2 and hy**2
MathDist2D(di, dj, hx2, hy2) == Add(Mul(di * di, hx2), Mul(dj * dj, hy2))

\* the entries written under `if fac > 0`, with max(0.0, fac) as the value
Clamped(kept) ==
    [n \in 1..Len(kept) |-> <<kept[n][1], kept[n][2], Larger(0, kept[n][3])>>]

\* the inner loops `for k in range(kk1, kk2): for l in range(ll1, ll2)`
MathBox2D(i, j, rmin, ny, hx2, hy2, kk1, kk2, ll1, ll2) ==
    LET w   == Max(0, ll2 - ll1)
        cnt == Max(0, kk2 - kk1) * w
    IN  Clamped(Valid([n \in 1..cnt |->
                  Cand(i * ny + j,
                       (kk1 + ((n - 1) \div w)) * ny + (ll1 + ((n - 1) % w)),
                       rmin,
                       MathDist2D(i - (kk1 + ((n - 1) \div w)),
                                  j - (ll1 + ((n - 1) % w)), hx2, hy2))]))

\* the triplets of row cell (i, j) of _compute_filter_2d_math, hx2 and hy2
\* being the values of hx**2 and hy**2
MathCell2D(i, j, rmin, nx, ny, hx, hy, hx2, hy2) ==
    MathBox2D(i, j, rmin, ny, hx2, hy2,
              Max(i - (Ceil(rmin, hx) - 1), 0), Min(i + Ceil(rmin, hx), nx),
              Max(j - (Ceil(rmin, hy) - 1), 0), Min(j + Ceil(rmin, hy), ny))

\* the loops `for i in range(nx): for j in range(ny)`, from cell number c on
RECURSIVE MathTriplets2D(_, _, _, _, _, _, _, _)
MathTriplets2D(c, rmin, nx, ny, hx, hy, hx2, hy2) ==
    IF c >= nx * ny THEN <<>>
    ELSE MathCell2D(c \div ny, c % ny, rmin, nx, ny, hx, hy, hx2, hy2)
         \o MathTriplets2D(c + 1, rmin, nx, ny, hx, hy, hx2, hy2)

\* nfilter: the length of the pre-sized buffers of _compute_filter_2d_math
NFilterOf(max_cells, N, dim) == N * ((2 * (max_cells - 1) + 1) ^ dim)

NFilter2D(rmin, nx, ny, hx, hy) == NFilterOf(Ceil(rmin, Smaller(hx, hy)), nx * ny, 2)

MathDist3D(di, dj, dk, hx2, hy2, hz2) ==
    Add(Add(Mul(di * di, hx2), Mul(dj * dj, hy2)), Mul(dk * dk, hz2))

MathBox3D(i, j, k, rmin, ny, nz, hx2, hy2, hz2, ii1, ii2, jj1, jj2, kk1, kk2) ==
    LET wk  == Max(0, kk2 - kk1)
        wj  == Max(0, jj2 - jj1)
        cnt == Max(0, ii2 - ii1) * wj * wk
    IN  Clamped(Valid([n \in 1..cnt |->
                  LET kk == kk1 + ((n - 1) % wk)
                      jj == jj1 + (((n - 1) \div wk) % wj)
                      ii == ii1 + ((n - 1) \div (wk * wj))
                  IN  Cand(k + j * nz + i * ny * nz,
                           kk + jj * nz + ii * ny * nz,
                           rmin,
                           MathDist3D(i - ii, j - jj, k - kk, hx2, hy2, hz2))]))

MathCell3D(i, j, k, rmin, nx, ny, nz, hx, hy, hz, hx2, hy2, hz2) ==
    MathBox3D(i, j, k, rmin, ny, nz, hx2, hy2, hz2,
              Max(i - (Ceil(rmin, hx) - 1), 0), Min(i + Ceil(rmin, hx), nx),
              Max(j - (Ceil(rmin, hy) - 1), 0), Min(j + Ceil(rmin, hy), ny),
              Max(k - (Ceil(rmin, hz) - 1), 0), Min(k + Ceil(rmin, hz), nz))

RECURSIVE MathTriplets3D(_, _, _, _, _, _, _, _, _, _, _)
MathTriplets3D(c, rmin, nx, ny, nz, hx, hy, hz, hx2, hy2, hz2) ==
    IF c >= nx * ny * nz THEN <<>>
    ELSE MathCell3D(c \div (ny * nz), (c \div nz) % ny, c % nz,
                    rmin, nx, ny, nz, hx, hy, hz, hx2, hy2, hz2)
         \o MathTriplets3D(c + 1, rmin, nx, ny, nz, hx, hy, hz, hx2, hy2, hz2)

NFilter3D(rmin, nx, ny, nz, hx, hy, hz) ==
    NFilterOf(Ceil(rmin, Smaller(Smaller(hx, hy), hz)), nx * ny * nz, 3)

\* ------------------------------------------------------ general assembler
\* squared distance of two cell centres, as the loop body computes it
Dist2(p, q) ==
    (p[1] - q[1]) * (p[1] - q[1]) + (p[2] - q[2]) * (p[2] - q[2])
    + (p[3] - q[3]) * (p[3] - q[3])

\* separation on one axis as the proximity query sees it
AxisSep(a, b, len, wrap) ==
    IF wrap THEN Min(Abs(a - b), len - Abs(a - b)) ELSE Abs(a - b)

QueryDist2(p, q, box_size, periodic) ==
    LET s(ax) == AxisSep(p[ax], q[ax], box_size[ax], periodic[ax])
    IN  s(1) * s(1) + s(2) * s(2) + s(3) * s(3)

\* bm.query_point(x, y, h, box_size, mask_self, periodic): the pairs
\* (cell_indices[n], neighbor_indices[n]) of points within h of each other,
\* the pair of a point with itself left out only when mask_self is set
QueryPoint(x, NC, h, box_size, mask_self, periodic) ==
    LET hit(i, j) == /\ QueryDist2(x[i], x[j], box_size, periodic) <= h * h
                     /\ ~(mask_self /\ i = j)
        all == [n \in 1..(NC * NC) |-> <<(n - 1) \div NC, (n - 1) % NC>>]
    IN  SelectSeq(all, LAMBDA pr : hit(pr[1], pr[2]))

NoPeriodic == <<FALSE, FALSE, FALSE>>

\* buffers sized for the returned pairs alone, the diagonal forgotten
DiagonalFill_short(NC, max_nnz, rmin) ==
    [n \in 1..(max_nnz - NC) |-> IF n <= NC THEN <<n - 1, n - 1, Fix(rmin)>>
                                           ELSE <<0, 0, 0>>]

\* the buffers iH, jH, sH after the diagonal loop: max_nnz slots, the first
\* NC of them holding (i, i, rmin)
DiagonalFill(NC, max_nnz, rmin) ==
    [n \in 1..max_nnz |-> IF n <= NC THEN <<n - 1, n - 1, Fix(rmin)>>
                                     ELSE <<0, 0, 0>>]

\* fac of one returned pair
PairFactor(centers, pr, rmin) ==
    Fix(rmin) - Sqrt(Dist2(centers[pr[1]], centers[pr[2]]))

\* a test that keeps a pair at distance exactly rmin
Retained_ties(fac) == fac >= 0

\* `if fac > 0` of the fill loop
Retained(fac) == fac > 0

\* ------------------------------------------------------------ the meshes
\* A mesh is what the builder reads of it: the keys meshdata declares and
\* their values, number_of_cells(), entity_barycenter('cell') (centres are
\* triples, z = 0 in the plane), the domain box (its length per axis) and
\* the device.
Keys2D == {"nx", "ny", "hx", "hy"}
Keys3D == {"nx", "ny", "nz", "hx", "hy", "hz"}
MeshTypes == {"quadrangle", "hexahedron", "triangle"}

Grid2(nx, ny, hx, hy) ==
    [keys |-> Keys2D \cup {"mesh_type", "domain"}, mesh_type |-> "quadrangle",
     nx |-> nx, ny |-> ny, nz |-> 0, hx |-> hx, hy |-> hy, hz |-> 0,
     NC |-> nx * ny,
     centers |-> [c \in 0..(nx * ny - 1) |->
                    <<Mul(c \div ny, hx), Mul(c % ny, hy), 0>>],
     domain |-> <<Mul(nx, hx), Mul(ny, hy), 1>>, device |-> "cpu"]

Grid3(nx, ny, nz, hx, hy, hz) ==
    [keys |-> Keys3D \cup {"mesh_type", "domain"}, mesh_type |-> "hexahedron",
     nx |-> nx, ny |-> ny, nz |-> nz, hx |-> hx, hy |-> hy, hz |-> hz,
     NC |-> nx * ny * nz,
     centers |-> [c \in 0..(nx * ny * nz - 1) |->
                    <<Mul(c \div (ny * nz), hx), Mul((c \div nz) % ny, hy),
                      Mul(c % nz, hz)>>],
     domain |-> <<Mul(nx, hx), Mul(ny, hy), Mul(nz, hz)>>, device |-> "cpu"]

RECURSIVE SetToSeq(_)
SetToSeq(S) ==
    IF S = {} THEN <<>>
    ELSE LET m == CHOOSE x \in S : \A y \in S : x <= y
         IN  <<m>> \o SetToSeq(S \ {m})

\* the lattice of candidate centres: (0..MaxCoord) x (0..1)
LatticePoint(p) == <<p \div 2, p % 2, 0>>

\* an unstructured mesh whose cell centres are the lattice points S
Cloud(S) ==
    LET sq == SetToSeq(S)
    IN  [keys |-> {"mesh_type", "domain"}, mesh_type |-> "triangle",
         nx |-> 0, ny |-> 0, nz |-> 0, hx |-> 0, hy |-> 0, hz |-> 0,
         NC |-> Len(sq),
         centers |-> [c \in 0..(Len(sq) - 1) |-> LatticePoint(sq[c + 1])],
         domain |-> <<MaxCoord + 1, 2, 1>>, device |-> "cpu"]

\* a mesh of cells on a line: a domain of length L along x, its cell centres
\* at the positions S
Ring(L, S) ==
    LET sq == SetToSeq(S)
    IN  [keys |-> {"mesh_type", "domain"}, mesh_type |-> "interval",
         nx |-> 0, ny |-> 0, nz |-> 0, hx |-> 0, hy |-> 0, hz |-> 0,
         NC |-> Len(sq),
         centers |-> [c \in 0..(Len(sq) - 1) |-> <<sq[c + 1], 0, 0>>],
         domain |-> <<L, 1, 1>>, device |-> "cpu"]

\* one more cell than the declared grid has
ExtraCell(m) ==
    [m EXCEPT !.NC = @ + 1,
              !.centers = [c \in 0..m.NC |->
                             IF c < m.NC THEN m.centers[c] ELSE m.domain]]

GridMeshes2D ==
    {Grid2(nx, ny, hx, hy) : nx \in 1..MaxN2, ny \in 1..MaxN2,
                             hx \in 1..MaxH, hy \in 1..MaxH}

GridMeshes3D ==
    {Grid3(g[1], g[2], g[3], h[1], h[2], h[3]) :
        g \in {c \in (1..MaxN3) \X (1..MaxN3) \X (1..MaxN3) :
                  c[1] * c[2] * c[3] <= MaxCells3},
        h \in (1..MaxH) \X (1..MaxH) \X (1..MaxH)}

CloudMeshes ==
    {Cloud(S) : S \in {T \in SUBSET (0..(2 * (MaxCoord + 1) - 1)) :
                          Cardinality(T) \in 1..MaxPts}}

\* the 3 x 3 grid of unit cells, its lengths in tenths, for a radius of 1.1
FineGrid == Grid2(3, 3, FineH, FineH)

RingMeshes ==
    {Ring(L, S) : L \in {MaxLen}, S \in {T \in SUBSET (0..(MaxLen - 1)) :
                                          Cardinality(T) \in 1..MaxPts}}

\* The metadata a mesh can carry besides a consistent grid: another kind
\* tag or none, a missing spacing, a cell count that is not the declared
\* one.  Taken over the grids of at most two unit cells.  Every mesh
\* declares its domain box.
SeedMeshes ==
    {m \in GridMeshes2D \cup GridMeshes3D :
        m.NC <= 2 /\ m.hx = 1 /\ m.hy = 1 /\ m.hz <= 1}

OddMeshes ==
    {[(IF extra THEN ExtraCell(m) ELSE m) EXCEPT
          !.keys = @ \ drop, !.mesh_type = t] :
        m \in SeedMeshes, extra \in BOOLEAN, t \in MeshTypes,
        drop \in SUBSET {"mesh_type", "hx"}}

Meshes ==
    GridMeshes2D \cup GridMeshes3D \cup CloudMeshes \cup RingMeshes \cup OddMeshes
    \cup {FineGrid}

Radii == {0 - 1, 0} \cup (1..MaxR)

\* the radii a mesh is built with
RadiiOf(m) == IF m = FineGrid THEN {FineR} ELSE Radii
BatchCaps == (1..MaxBatchCap) \cup {BatchLimit}

\* the periodic argument of _compute_filter_general: the axes that wrap
PeriodicChoices == {<<px, py, FALSE>> : px \in BOOLEAN, py \in BOOLEAN}

\* Grids with float64 lengths: spacings of whole tenths (0.1, ...) and the
\* radii 0.15 and 0.25, each the float64 nearest to the decimal, on a row
\* of up to MaxFloatN cells in the plane and in space.
FloatSpacings == {Decimal(k, 10) : k \in 1..MaxTenths}
FloatRadii == {Decimal(15, 100), Decimal(25, 100)}
FloatGrids2D == {Grid2(nx, 1, h, h) : nx \in 1..MaxFloatN, h \in FloatSpacings}
FloatGrids3D == {Grid3(nx, 1, 1, h, h, h) : nx \in {MaxFloatN}, h \in FloatSpacings}

\* ------------------------------------------------------------ dispatcher
\* which branch of build() a mesh takes; meshdata[...] of an undeclared key
\* raises KeyError
Dispatch(m) ==
    IF Keys3D \subseteq m.keys /\ "mesh_type" \notin m.keys THEN "KeyError"
    ELSE IF Keys3D \subseteq m.keys /\ m.mesh_type = "hexahedron" THEN "filter_3d"
    ELSE IF Keys2D \subseteq m.keys /\ "mesh_type" \notin m.keys THEN "KeyError"
    ELSE IF Keys2D \subseteq m.keys /\ m.mesh_type \in {"quadrangle"} THEN "filter_2d"
    ELSE IF "domain" \notin m.keys THEN "KeyError"
    ELSE "general"

\* a test that lets a zero radius through
RadiusRejected_strict(rmin) == rmin < 0

\* the test of __init__
RadiusRejected(rmin) == ~Less(0, rmin)

\* ------------------------------------------------------------------ state
VARIABLES
    mesh,       \* the mesh handed to the constructor
    arg_rmin,   \* the radius handed to the constructor
    batch_cap,  \* the cap of batch_size (BatchLimit in the source)
    periodic,   \* the periodic argument of the general assembler
    pc,         \* "new", "ready", "filter_2d", "filter_3d", "general",
                \* "built", "math_done", "failed"
    err,        \* the exception raised, or "none"
    self,       \* the builder's attributes
    ran,        \* the assemblers build() has entered
    batch_idx,  \* the batch loop counter
    batches,    \* <<start_idx, end_idx>> of the batches processed so far
    trip,       \* all_rows, all_cols, all_vals
    pairs,      \* cell_indices, neighbor_indices
    idx,        \* the fill loop counter of the general assembler
    nnz,        \* its write counter
    buf,        \* iH, jH, sH of the general assembler
    H,          \* the returned matrix
    Hs,         \* the returned row sums
    math        \* what the direct reference variant returned

vars == <<mesh, arg_rmin, batch_cap, periodic, pc, err, self, ran, batch_idx, batches,
          trip, pairs, idx, nnz, buf, H, Hs, math>>

Unset == [mesh |-> FALSE, rmin |-> 0, device |-> "unset"]
NoMath == [trip |-> <<>>, H |-> NoMatrix, Hs |-> <<>>, err |-> "not run"]

\* the declared number of cells of a structured grid
N2(m) == m.nx * m.ny
N3(m) == m.nx * m.ny * m.nz

Init ==
    /\ mesh \in Meshes
    /\ arg_rmin \in RadiiOf(mesh)
    /\ batch_cap \in (IF Dispatch(mesh) \in {"filter_2d", "filter_3d"}
                      THEN BatchCaps ELSE {BatchLimit})
    /\ periodic = NoPeriodic
    /\ pc = "new"
    /\ err = "none"
    /\ self = Unset
    /\ ran = <<>>
    /\ batch_idx = 0
    /\ batches = <<>>
    /\ trip = <<>>
    /\ pairs = <<>>
    /\ idx = 0
    /\ nnz = 0
    /\ buf = <<>>
    /\ H = NoMatrix
    /\ Hs = <<>>
    /\ math = NoMath

\* FilterMatrixBuilder(mesh, rmin)
Construct ==
    /\ pc = "new"
    /\ IF RadiusRejected(arg_rmin)
       THEN /\ err' = "ValueError"
            /\ pc' = "failed"
            /\ self' = self
       ELSE /\ self' = [mesh |-> TRUE, rmin |-> arg_rmin, device |-> mesh.device]
            /\ pc' = "ready"
            /\ err' = err
    /\ UNCHANGED <<mesh, arg_rmin, batch_cap, periodic, ran, batch_idx, batches, trip,
                   pairs, idx, nnz, buf, H, Hs, math>>

\* build(): the dispatch, and the chosen assembler up to its first loop
Build ==
    /\ pc = "ready"
    /\ LET d == Dispatch(mesh) IN
       \/ /\ d = "KeyError"
          /\ err' = "KeyError"
          /\ pc' = "failed"
          /\ UNCHANGED <<ran, pairs, nnz, buf>>
       \/ /\ d = "filter_2d"
          /\ ran' = Append(ran, d)
          /\ IF mesh.NC = N2(mesh)
             THEN pc' = d /\ err' = err
             ELSE pc' = "failed" /\ err' = "AssertionError"
          /\ UNCHANGED <<pairs, nnz, buf>>
       \/ /\ d = "filter_3d"
          /\ ran' = Append(ran, d)
          /\ pc' = d
          /\ UNCHANGED <<err, pairs, nnz, buf>>
       \/ /\ d = "general"
          /\ ran' = Append(ran, d)
          /\ pc' = d
          /\ LET q == QueryPoint(mesh.centers, mesh.NC, self.rmin, mesh.domain,
                                 FALSE, NoPeriodic)
             IN  /\ pairs' = q
                 /\ buf' = DiagonalFill(mesh.NC, Len(q) + mesh.NC, self.rmin)
          /\ nnz' = mesh.NC
          /\ err' = err
    /\ UNCHANGED <<mesh, arg_rmin, batch_cap, periodic, self, batch_idx, batches, trip,
                   idx, H, Hs, math>>

\* every cell centre lies inside the domain box
InsideBox(m) ==
    \A c \in 0..(m.NC - 1) : \A ax \in 1..3 :
        0 <= m.centers[c][ax] /\ m.centers[c][ax] < m.domain[ax]

\* _compute_filter_general(rmin, domain, cell_centers, periodic) called with
\* its periodic argument given, up to its fill loop
CallGeneral ==
    /\ pc = "ready"
    /\ Dispatch(mesh) = "general"
    /\ InsideBox(mesh)
    /\ \E p \in PeriodicChoices :
          /\ periodic' = p
          /\ LET q == QueryPoint(mesh.centers, mesh.NC, self.rmin, mesh.domain,
                                 FALSE, p)
             IN  /\ pairs' = q
                 /\ buf' = DiagonalFill(mesh.NC, Len(q) + mesh.NC, self.rmin)
    /\ ran' = Append(ran, "general")
    /\ pc' = "general"
    /\ nnz' = mesh.NC
    /\ UNCHANGED <<mesh, arg_rmin, batch_cap, err, self, batch_idx, batches, trip,
                   idx, H, Hs, math>>

\* one iteration of `for batch_idx in range(n_batches)` of _compute_filter_2d
Batch2D ==
    /\ pc = "filter_2d"
    /\ batch_idx < NBatches(batch_cap, N2(mesh))
    /\ LET batch_size == BatchSize(batch_cap, N2(mesh))
           start_idx == BatchStart(batch_idx, batch_size)
           end_idx == BatchEnd(batch_idx, batch_size, N2(mesh))
       IN  /\ trip' = trip \o BatchTriplets2D(start_idx, end_idx, self.rmin,
                                 mesh.nx, mesh.ny, mesh.hx, mesh.hy)
           /\ batches' = Append(batches, <<start_idx, end_idx>>)
    /\ batch_idx' = batch_idx + 1
    /\ UNCHANGED <<mesh, arg_rmin, batch_cap, periodic, pc, err, self, ran, pairs, idx,
                   nnz, buf, H, Hs, math>>

\* the end of _compute_filter_2d: Hs from the coordinate form, then tocsr
Assemble2D ==
    /\ pc = "filter_2d"
    /\ batch_idx >= NBatches(batch_cap, N2(mesh))
    /\ Hs' = CooMatVecOnes(trip, N2(mesh))
    /\ H' = ToCsr(trip, N2(mesh))
    /\ pc' = "built"
    /\ UNCHANGED <<mesh, arg_rmin, batch_cap, periodic, err, self, ran, batch_idx,
                   batches, trip, pairs, idx, nnz, buf, math>>

\* one iteration of the batch loop of _compute_filter_3d
Batch3D ==
    /\ pc = "filter_3d"
    /\ batch_idx < NBatches(batch_cap, N3(mesh))
    /\ LET batch_size == BatchSize(batch_cap, N3(mesh))
           start_idx == BatchStart(batch_idx, batch_size)
           end_idx == BatchEnd(batch_idx, batch_size, N3(mesh))
       IN  /\ trip' = trip \o BatchTriplets3D(start_idx, end_idx, self.rmin,
                                 mesh.nx, mesh.ny, mesh.nz,
                                 mesh.hx, mesh.hy, mesh.hz)
           /\ batches' = Append(batches, <<start_idx, end_idx>>)
    /\ batch_idx' = batch_idx + 1
    /\ UNCHANGED <<mesh, arg_rmin, batch_cap, periodic, pc, err, self, ran, pairs, idx,
                   nnz, buf, H, Hs, math>>

\* the end of _compute_filter_3d: tocsr, then Hs from the compressed form
Assemble3D ==
    /\ pc = "filter_3d"
    /\ batch_idx >= NBatches(batch_cap, N3(mesh))
    /\ H' = ToCsr(trip, N3(mesh))
    /\ Hs' = CsrMatVecOnes(ToCsr(trip, N3(mesh)))
    /\ pc' = "built"
    /\ UNCHANGED <<mesh, arg_rmin, batch_cap, periodic, err, self, ran, batch_idx,
                   batches, trip, pairs, idx, nnz, buf, math>>

\* one iteration of `for idx in range(len(cell_indices))`
GeneralFill ==
    /\ pc = "general"
    /\ idx < Len(pairs)
    /\ LET pr == pairs[idx + 1]
           fac == PairFactor(mesh.centers, pr, self.rmin)
       IN  IF Retained(fac)
           THEN /\ buf' = [buf EXCEPT ![nnz + 1] = <<pr[1], pr[2], fac>>]
                /\ nnz' = nnz + 1
           ELSE UNCHANGED <<buf, nnz>>
    /\ idx' = idx + 1
    /\ UNCHANGED <<mesh, arg_rmin, batch_cap, periodic, pc, err, self, ran, batch_idx,
                   batches, trip, pairs, H, Hs, math>>

\* the end of _compute_filter_general: the first nnz slots make the matrix
GeneralAssemble ==
    /\ pc = "general"
    /\ idx >= Len(pairs)
    /\ Hs' = CooMatVecOnes(SubSeq(buf, 1, nnz), mesh.NC)
    /\ H' = ToCsr(SubSeq(buf, 1, nnz), mesh.NC)
    /\ pc' = "built"
    /\ UNCHANGED <<mesh, arg_rmin, batch_cap, periodic, err, self, ran, batch_idx,
                   batches, trip, pairs, idx, nnz, buf, math>>

\* what _compute_filter_2d_math returns for the entries t it writes into
\* buffers of length nfilter
MathResult2D(t, nfilter, NC, N) ==
    IF NC # N
    THEN [NoMath EXCEPT !.err = "AssertionError"]
    ELSE IF Len(t) > nfilter
    THEN [NoMath EXCEPT !.err = "IndexError"]
    ELSE [trip |-> t, H |-> ToCsr(t, N), Hs |-> CooMatVecOnes(t, N), err |-> "none"]

\* _compute_filter_2d_math on the grid and radius build() has just used
Math2D ==
    /\ pc = "built"
    /\ ran = <<"filter_2d">>
    /\ \E hx2 \in Pow2(mesh.hx) :
       \E hy2 \in (IF SameNumber(mesh.hy, mesh.hx) THEN {hx2} ELSE Pow2(mesh.hy)) :
          math' = MathResult2D(
                     MathTriplets2D(0, self.rmin, mesh.nx, mesh.ny, mesh.hx, mesh.hy,
                                    hx2, hy2),
                     NFilter2D(self.rmin, mesh.nx, mesh.ny, mesh.hx, mesh.hy),
                     mesh.NC, N2(mesh))
    /\ pc' = "math_done"
    /\ UNCHANGED <<mesh, arg_rmin, batch_cap, periodic, err, self, ran, batch_idx,
                   batches, trip, pairs, idx, nnz, buf, H, Hs>>

\* what _compute_filter_3d_math returns for the entries t it writes into
\* buffers of length nfilter
MathResult3D(t, nfilter, N) ==
    IF Len(t) > nfilter
    THEN [NoMath EXCEPT !.err = "IndexError"]
    ELSE [trip |-> t, H |-> ToCsr(t, N), Hs |-> CsrMatVecOnes(ToCsr(t, N)),
          err |-> "none"]

\* _compute_filter_3d_math on the grid and radius build() has just used
Math3D ==
    /\ pc = "built"
    /\ ran = <<"filter_3d">>
    /\ \E hx2 \in Pow2(mesh.hx) :
       \E hy2 \in (IF SameNumber(mesh.hy, mesh.hx) THEN {hx2} ELSE Pow2(mesh.hy)) :
       \E hz2 \in (IF SameNumber(mesh.hz, mesh.hx) THEN {hx2}
                   ELSE IF SameNumber(mesh.hz, mesh.hy) THEN {hy2}
                   ELSE Pow2(mesh.hz)) :
          math' = MathResult3D(
                     MathTriplets3D(0, self.rmin, mesh.nx, mesh.ny, mesh.nz,
                                    mesh.hx, mesh.hy, mesh.hz, hx2, hy2, hz2),
                     NFilter3D(self.rmin, mesh.nx, mesh.ny, mesh.nz,
                               mesh.hx, mesh.hy, mesh.hz),
                     N3(mesh))
    /\ pc' = "math_done"
    /\ UNCHANGED <<mesh, arg_rmin, batch_cap, periodic, err, self, ran, batch_idx,
                   batches, trip, pairs, idx, nnz, buf, H, Hs>>

Next ==
    \/ Construct
    \/ Build
    \/ CallGeneral
    \/ Batch2D
    \/ Assemble2D
    \/ Batch3D
    \/ Assemble3D
    \/ GeneralFill
    \/ GeneralAssemble
    \/ Math2D
    \/ Math3D

Spec == Init /\ [][Next]_vars

\* ------------------------------------------------ float64 lengths
\* The builder on grids whose spacings or radius are float64 numbers that
\* are no integers, next to the meshes of OddMeshes.  Lengths of two kinds
\* meet in one call as well: the int radius 1 on the grids with float64
\* spacings, and the float64 radius 1.5 on grids with the int spacing 1.
FloatInit ==
    /\ \/ mesh \in FloatGrids2D /\ arg_rmin \in FloatRadii /\ batch_cap \in BatchCaps
       \/ mesh \in FloatGrids3D /\ arg_rmin \in FloatRadii /\ batch_cap \in BatchCaps
       \/ mesh \in FloatGrids2D /\ arg_rmin = 1 /\ batch_cap \in BatchCaps
       \/ /\ mesh \in {Grid2(nx, ny, 1, 1) : nx \in 1..2, ny \in 1..2}
          /\ arg_rmin = Decimal(15, 10)
          /\ batch_cap \in BatchCaps
       \/ /\ mesh \in OddMeshes
          /\ arg_rmin \in Radii
          /\ batch_cap \in (IF Dispatch(mesh) \in {"filter_2d", "filter_3d"}
                            THEN BatchCaps ELSE {BatchLimit})
    /\ periodic = NoPeriodic
    /\ pc = "new"
    /\ err = "none"
    /\ self = Unset
    /\ ran = <<>>
    /\ batch_idx = 0
    /\ batches = <<>>
    /\ trip = <<>>
    /\ pairs = <<>>
    /\ idx = 0
    /\ nnz = 0
    /\ buf = <<>>
    /\ H = NoMatrix
    /\ Hs = <<>>
    /\ math = NoMath

FloatSpec == FloatInit /\ [][Next]_vars

\* ------------------------------------------- batches taken in any order
\* The batch loops with their iterations taken in any order: every batch
\* computes its triplets from the grid and the radius alone, and the lists
\* are appended in the order the batches finish.  `batches` records that
\* order, `batch_idx` the number of batches done.  The runs are those of at
\* most MaxBatches batches, in 3D on grids with hx = hy; of the meshes that
\* take the general assembler, which has no batches, those of at most two
\* cells are kept.
ParInit ==
    /\ Init
    /\ Dispatch(mesh) = "filter_2d" => NBatches(batch_cap, N2(mesh)) <= MaxBatches
    /\ Dispatch(mesh) = "filter_3d" =>
          /\ NBatches(batch_cap, N3(mesh)) <= MaxBatches
          /\ mesh.hx = mesh.hy
    /\ Dispatch(mesh) = "general" => mesh.NC <= 2

\* a batch that replaces the shared lists by its own instead of extending them
ParBatch2D_lost ==
    /\ pc = "filter_2d"
    /\ \E b \in 0..(NBatches(batch_cap, N2(mesh)) - 1) :
          LET batch_size == BatchSize(batch_cap, N2(mesh))
              start_idx == BatchStart(b, batch_size)
              end_idx == BatchEnd(b, batch_size, N2(mesh))
          IN  /\ \A n \in 1..Len(batches) : batches[n] # <<start_idx, end_idx>>
              /\ trip' = BatchTriplets2D(start_idx, end_idx, self.rmin,
                                         mesh.nx, mesh.ny, mesh.hx, mesh.hy)
              /\ batches' = Append(batches, <<start_idx, end_idx>>)
    /\ batch_idx' = batch_idx + 1
    /\ UNCHANGED <<mesh, arg_rmin, batch_cap, periodic, pc, err, self, ran, pairs, idx,
                   nnz, buf, H, Hs, math>>

ParBatch2D ==
    /\ pc = "filter_2d"
    /\ \E b \in 0..(NBatches(batch_cap, N2(mesh)) - 1) :
          LET batch_size == BatchSize(batch_cap, N2(mesh))
              start_idx == BatchStart(b, batch_size)
              end_idx == BatchEnd(b, batch_size, N2(mesh))
          IN  /\ \A n \in 1..Len(batches) : batches[n] # <<start_idx, end_idx>>
              /\ trip' = trip \o BatchTriplets2D(start_idx, end_idx, self.rmin,
                                    mesh.nx, mesh.ny, mesh.hx, mesh.hy)
              /\ batches' = Append(batches, <<start_idx, end_idx>>)
    /\ batch_idx' = batch_idx + 1
    /\ UNCHANGED <<mesh, arg_rmin, batch_cap, periodic, pc, err, self, ran, pairs, idx,
                   nnz, buf, H, Hs, math>>

ParBatch3D ==
    /\ pc = "filter_3d"
    /\ \E b \in 0..(NBatches(batch_cap, N3(mesh)) - 1) :
          LET batch_size == BatchSize(batch_cap, N3(mesh))
              start_idx == BatchStart(b, batch_size)
              end_idx == BatchEnd(b, batch_size, N3(mesh))
          IN  /\ \A n \in 1..Len(batches) : batches[n] # <<start_idx, end_idx>>
              /\ trip' = trip \o BatchTriplets3D(start_idx, end_idx, self.rmin,
                                    mesh.nx, mesh.ny, mesh.nz,
                                    mesh.hx, mesh.hy, mesh.hz)
              /\ batches' = Append(batches, <<start_idx, end_idx>>)
    /\ batch_idx' = batch_idx + 1
    /\ UNCHANGED <<mesh, arg_rmin, batch_cap, periodic, pc, err, self, ran, pairs, idx,
                   nnz, buf, H, Hs, math>>

ParNext ==
    \/ Construct
    \/ Build
    \/ CallGeneral
    \/ ParBatch2D
    \/ Assemble2D
    \/ ParBatch3D
    \/ Assemble3D
    \/ GeneralFill
    \/ GeneralAssemble
    \/ Math2D
    \/ Math3D

ParSpec == ParInit /\ [][ParNext]_vars

\* ================================================================ claims
Structured == {"filter_2d", "filter_3d"}
Returned == pc \in {"built", "math_done"}
RanStructured == ran # <<>> /\ ran[1] \in Structured
RanGeneral == ran = <<"general">>
Cells == 0..(H.n - 1)

\* the coordinate list handed to the sparse-matrix constructor
Coo == IF RanGeneral THEN SubSeq(buf, 1, nnz) ELSE trip

\* the centre of cell c as the assembler that ran places it
CellPos(c) ==
    IF ran = <<"filter_2d">>
    THEN <<(c \div mesh.ny) * mesh.hx, (c % mesh.ny) * mesh.hy, 0>>
    ELSE IF ran = <<"filter_3d">>
    THEN <<(c \div (mesh.ny * mesh.nz)) * mesh.hx,
           ((c \div mesh.nz) % mesh.ny) * mesh.hy, (c % mesh.nz) * mesh.hz>>
    ELSE mesh.centers[c]

\* cell c has no other cell at a distance below the radius
Isolated(c) ==
    \A d \in Cells : d # c => Dist2(CellPos(c), CellPos(d)) >= self.rmin * self.rmin

\* C1: a radius rmin <= 0 makes the constructor fail with the invalid-
\* parameter error, leaving no builder attribute set and no assembler run
\* or result produced; every rmin > 0 constructs the builder.
C1_RadiusChecked ==
    pc # "new" =>
        IF arg_rmin <= 0
        THEN /\ pc = "failed" /\ err = "ValueError"
             /\ self = Unset /\ ran = <<>>
             /\ trip = <<>> /\ pairs = <<>> /\ buf = <<>>
             /\ H = NoMatrix /\ Hs = <<>>
        ELSE /\ err # "ValueError"
             /\ self = [mesh |-> TRUE, rmin |-> arg_rmin, device |-> mesh.device]

C1_Witness == pc = "failed" /\ err = "ValueError" /\ arg_rmin = 0

\* the decision rule of the dispatcher as the specification words it
SpecRule(m) ==
    IF /\ Keys3D \subseteq m.keys
       /\ "mesh_type" \in m.keys /\ m.mesh_type = "hexahedron"
    THEN "filter_3d"
    ELSE IF /\ Keys2D \subseteq m.keys
            /\ "mesh_type" \in m.keys /\ m.mesh_type = "quadrangle"
    THEN "filter_2d"
    ELSE "general"

\* C2: for every mesh metadata build() enters exactly one assembler, the
\* one the ordered rule names (3D keys and hexahedral kind, else 2D keys
\* and quadrilateral kind, else general), and a mesh matching neither
\* structured rule, its kind tag absent included, raises no error.
C2_DispatchRule ==
    (pc \notin {"new", "ready"} /\ self.mesh) =>
        /\ ran = <<SpecRule(mesh)>>
        /\ err # "KeyError"

\* C3: a structured assembler entered with declared dimensions whose
\* product is not the mesh's cell count raises and returns no (H, Hs),
\* in 2D and in 3D.
C3_MismatchRefused ==
    (/\ RanStructured
     /\ mesh.NC # (IF ran[1] = "filter_2d" THEN N2(mesh) ELSE N3(mesh))
     /\ pc \in {"failed", "built", "math_done"}) =>
        /\ pc = "failed" /\ err = "AssertionError"
        /\ H = NoMatrix /\ Hs = <<>>

\* C4: in the matrix a structured assembler returns, every cell i has
\* exactly one stored entry at (i, i) and H[i, i] is the radius.
C4_StructuredDiagonal ==
    (Returned /\ RanStructured) =>
        \A i \in Cells : Stored(H, i, i) = 1 /\ Entry(H, i, i) = Fix(self.rmin)

C4_Witness ==
    /\ Returned /\ RanStructured
    /\ H.n >= 4 /\ Len(H.val) > H.n
    /\ \E i \in Cells : \E j \in Cells : Entry(H, i, j) = 0

\* C5: in the general assembler the proximity query returns no pair
\* (i, i), and the returned matrix has H[i, i] = rmin for every cell i.
C5_GeneralDiagonal ==
    (RanGeneral /\ pc = "built") =>
        /\ \A n \in 1..Len(pairs) : pairs[n][1] # pairs[n][2]
        /\ \A i \in Cells : Entry(H, i, i) = Fix(self.rmin)

\* C6: the batched structured assembler and the direct reference variant,
\* run on the same grid and radius, give the same set of (row, col, weight)
\* triplets, the same H and the same Hs, whatever the grid size, the
\* positive spacings and the radius.
C6_BatchedEqualsMath ==
    pc = "math_done" =>
        /\ math.err = "none"
        /\ {math.trip[k] : k \in 1..Len(math.trip)} = {trip[k] : k \in 1..Len(trip)}
        /\ Len(math.trip) = Len(trip)
        /\ math.H = H
        /\ math.Hs = Hs

\* C7: the batches [start_idx, end_idx) of a structured assembler follow
\* one another from 0 without gap or overlap; when the loop is over every
\* cell index lies in exactly one batch and the accumulated triplet list is
\* the list one batch over all N cells gives.
C7_BatchPartition ==
    (RanStructured /\ pc # "failed") =>
        LET N == IF ran[1] = "filter_2d" THEN N2(mesh) ELSE N3(mesh)
            whole == IF ran[1] = "filter_2d"
                     THEN BatchTriplets2D(0, N, self.rmin, mesh.nx, mesh.ny,
                                          mesh.hx, mesh.hy)
                     ELSE BatchTriplets3D(0, N, self.rmin, mesh.nx, mesh.ny, mesh.nz,
                                          mesh.hx, mesh.hy, mesh.hz)
        IN  /\ \A b \in 1..Len(batches) :
                  /\ batches[b][1] = (IF b = 1 THEN 0 ELSE batches[b - 1][2])
                  /\ batches[b][1] < batches[b][2]
                  /\ batches[b][2] <= N
            /\ Returned =>
                  /\ \A c \in 0..(N - 1) :
                        Cardinality({b \in 1..Len(batches) :
                                        batches[b][1] <= c /\ c < batches[b][2]}) = 1
                  /\ trip = whole

C7_Witness ==
    /\ Returned /\ RanStructured
    /\ Len(batches) >= 3
    /\ batches[Len(batches)][2] - batches[Len(batches)][1]
          < batches[1][2] - batches[1][1]
    /\ Len(trip) > H.n

\* C8: the support of every returned matrix is symmetric: H[i, j] > 0
\* exactly when H[j, i] > 0.
C8_SymmetricSupport ==
    /\ Returned =>
          \A i \in Cells : \A j \in Cells :
              (Entry(H, i, j) > 0) <=> (Entry(H, j, i) > 0)
    /\ (pc = "math_done" /\ math.err = "none") =>
          \A i \in 0..(math.H.n - 1) : \A j \in 0..(math.H.n - 1) :
              (Entry(math.H, i, j) > 0) <=> (Entry(math.H, j, i) > 0)

C8_Witness ==
    /\ Returned /\ RanStructured /\ H.n >= 6
    /\ \E i \in Cells : \E j \in Cells : i # j /\ Entry(H, i, j) > 0
    /\ \E i \in Cells : \E j \in Cells : Entry(H, i, j) = 0

\* C9: in every returned matrix Hs[i] >= r for every cell i, with equality
\* exactly for the cells that have no other cell within the radius.
C9_RowSumAtLeastRadius ==
    Returned =>
        \A i \in Cells :
            /\ Hs[i] >= Fix(self.rmin)
            /\ (Hs[i] = Fix(self.rmin)) <=> Isolated(i)

\* C11: in the general assembler called with wrap enabled on the x axis of
\* a domain of length L, two cells at x = 0 and x = L - eps that differ in
\* no other coordinate, with eps < rmin < L - eps, are mutual neighbours:
\* H is strictly positive at (a, b) and at (b, a).
C11_PeriodicNeighbours ==
    (RanGeneral /\ pc = "built" /\ periodic[1]) =>
        \A a \in Cells : \A b \in Cells :
            LET pa == mesh.centers[a]
                pb == mesh.centers[b]
                eps == mesh.domain[1] - pb[1]
            IN  (/\ pa[1] = 0 /\ pa[2] = pb[2] /\ pa[3] = pb[3]
                 /\ 0 < eps /\ eps < self.rmin
                 /\ mesh.domain[1] - eps > self.rmin) =>
                    Entry(H, a, b) > 0 /\ Entry(H, b, a) > 0

\* the smallest spacing of the grid the structured assembler ran on
MinSpacing ==
    IF ran[1] = "filter_2d" THEN Min(mesh.hx, mesh.hy)
    ELSE Min(mesh.hx, Min(mesh.hy, mesh.hz))

\* C12: on a structured grid with a radius no larger than the smallest
\* spacing the structured assembler returns rmin times the identity: N
\* stored entries, all on the diagonal, each equal to rmin, and Hs[i] = rmin
\* for every cell.
C12_SmallRadiusDiagonal ==
    (Returned /\ RanStructured /\ self.rmin <= MinSpacing) =>
        /\ H.n = (IF ran[1] = "filter_2d" THEN N2(mesh) ELSE N3(mesh))
        /\ Len(H.val) = H.n
        /\ \A i \in Cells :
              /\ Stored(H, i, i) = 1
              /\ Entry(H, i, i) = Fix(self.rmin)
              /\ \A j \in Cells : j # i => Stored(H, i, j) = 0
              /\ Hs[i] = Fix(self.rmin)

C12_Witness ==
    /\ Returned /\ ran = <<"filter_2d">>
    /\ self.rmin = MinSpacing /\ mesh.hx # mesh.hy
    /\ H.n >= 6 /\ Len(batches) >= 2

\* the cells next to c along one axis of an nx x ny grid
AxisAdjacent(c, nx, ny) ==
    {d \in 0..(nx * ny - 1) :
        Abs((d \div ny) - (c \div ny)) + Abs((d % ny) - (c % ny)) = 1}

\* the columns stored in row i of a compressed-row matrix
RowColumns(csr, i) == {csr.col[k] : k \in (csr.crow[i] + 1)..csr.crow[i + 1]}

\* C13: on the 3 x 3 grid with hx = hy = 1 and rmin = 1.1 the row of the
\* interior cell holds itself with weight 1.1 and its 4 axis-adjacent
\* neighbours with weight 0.1 each, the row of each corner cell holds
\* itself and its 2 axis-adjacent neighbours, and no row holds a diagonally
\* adjacent cell.
C13_ThreeByThree ==
    (Returned /\ ran = <<"filter_2d">> /\ mesh = FineGrid /\ self.rmin = FineR) =>
        /\ \A c \in {4, 0, 2, 6, 8} :
              /\ RowColumns(H, c) = {c} \cup AxisAdjacent(c, 3, 3)
              /\ H.crow[c + 1] - H.crow[c] = 1 + Cardinality(AxisAdjacent(c, 3, 3))
              /\ Entry(H, c, c) = Fix(FineR)
              /\ \A d \in AxisAdjacent(c, 3, 3) : Entry(H, c, d) = Fix(FineR - FineH)
        /\ Cardinality(AxisAdjacent(4, 3, 3)) = 4
        /\ \A c \in {0, 2, 6, 8} : Cardinality(AxisAdjacent(c, 3, 3)) = 2
        /\ \A c \in Cells : \A d \in Cells :
              (Abs((d \div 3) - (c \div 3)) = 1 /\ Abs((d % 3) - (c % 3)) = 1) =>
                  Stored(H, c, d) = 0

C13_Witness ==
    /\ Returned /\ ran = <<"filter_2d">> /\ mesh = FineGrid /\ self.rmin = FineR
    /\ Len(batches) >= 2
    /\ Len(H.val) = 33

\* the declared cell count of the grid the structured assembler ran on
GridN == IF ran[1] = "filter_2d" THEN N2(mesh) ELSE N3(mesh)

\* the candidate box of cell c, as the structured assembler that ran lists it
SearchBox(c) ==
    IF ran[1] = "filter_2d"
    THEN LET ij == linear_to_2d(c, mesh.ny)
         IN  SearchIndices2D(ij[1], ij[2], self.rmin,
                             mesh.nx, mesh.ny, mesh.hx, mesh.hy)
    ELSE LET c3 == linear_to_3d(c, mesh.ny, mesh.nz)
         IN  SearchIndices3D(c3[1], c3[2], c3[3], self.rmin,
                             mesh.nx, mesh.ny, mesh.nz, mesh.hx, mesh.hy, mesh.hz)

\* C14: in the structured assemblers the candidate box of every cell holds
\* the cell itself and every grid cell whose centre is at a distance
\* strictly below rmin, and holds only linear indices in 0..N-1; so the
\* returned matrix stores every pair of cells closer than rmin.
C14_SearchBoxComplete ==
    (RanStructured /\ pc # "failed") =>
        /\ \A c \in 0..(GridN - 1) :
              LET box == SearchBox(c)
                  inbox == {box[n] : n \in 1..Len(box)}
              IN  /\ c \in inbox
                  /\ inbox \subseteq 0..(GridN - 1)
                  /\ \A d \in 0..(GridN - 1) :
                        Dist2(CellPos(c), CellPos(d)) < self.rmin * self.rmin
                            => d \in inbox
        /\ Returned =>
              \A c \in Cells : \A d \in Cells :
                  Dist2(CellPos(c), CellPos(d)) < self.rmin * self.rmin
                      => Stored(H, c, d) >= 1

C14_Witness ==
    /\ Returned /\ RanStructured
    /\ \E c \in Cells :
          LET box == SearchBox(c)
              inbox == {box[n] : n \in 1..Len(box)}
          IN  /\ inbox # Cells
              /\ Cardinality(inbox) >= 4
              /\ \E d \in inbox : Stored(H, c, d) = 0
              /\ \E d \in inbox : d # c /\ Stored(H, c, d) = 1

\* the squared distance of the two cells of a triplet
TripletDist2(t) == Dist2(CellPos(t[1]), CellPos(t[2]))

\* boundary exclusivity of one coordinate list over the cells 0..n-1
Exclusive(coo, n) ==
    LET stored == {<<coo[k][1], coo[k][2]>> : k \in 1..Len(coo)}
        r2 == self.rmin * self.rmin
    IN  /\ \A i \in 0..(n - 1) : \A j \in 0..(n - 1) :
              (<<i, j>> \in stored) <=> (Dist2(CellPos(i), CellPos(j)) < r2)
        /\ \A k \in 1..Len(coo) : 0 < coo[k][3] /\ coo[k][3] <= Fix(self.rmin)
        /\ LET offdiag == {k \in 1..Len(coo) : coo[k][1] # coo[k][2]}
               byDist == {<<TripletDist2(coo[k]), coo[k][3]>> : k \in offdiag}
           IN  \A p \in byDist : \A q \in byDist : p[1] < q[1] => p[2] > q[2]

\* C15: in every assembler a pair (i, j) is stored exactly when the distance
\* of the two centres is strictly below rmin, a pair at distance exactly
\* rmin being left out; every stored weight w has 0 < w <= rmin, and of two
\* stored pairs of distinct cells the one at the larger distance has the
\* strictly smaller weight.
C15_BoundaryExclusive ==
    /\ Returned => Exclusive(Coo, H.n)
    /\ (pc = "math_done" /\ math.err = "none") => Exclusive(math.trip, math.H.n)

C15_Witness ==
    /\ Returned
    /\ \E i \in Cells : \E j \in Cells :
          /\ Dist2(CellPos(i), CellPos(j)) = self.rmin * self.rmin
          /\ Stored(H, i, j) = 0
    /\ \E k \in 1..Len(Coo) : \E l \in 1..Len(Coo) :
          /\ Coo[k][1] # Coo[k][2] /\ Coo[l][1] # Coo[l][2]
          /\ TripletDist2(Coo[k]) < TripletDist2(Coo[l])

\* C16: in the general assembler the buffers hold (number of returned
\* pairs + N) slots, and at every point of the fill loop the write counter
\* nnz is at least N and at most N plus the number of pairs processed so
\* far, hence never beyond the buffers; the matrix is made of the first nnz
\* slots only.
C16_BufferBound ==
    (RanGeneral /\ pc \in {"general", "built"}) =>
        /\ Len(buf) = Len(pairs) + mesh.NC
        /\ idx <= Len(pairs)
        /\ mesh.NC <= nnz
        /\ nnz <= mesh.NC + idx
        /\ nnz <= Len(buf)
        /\ pc = "built" =>
              /\ idx = Len(pairs)
              /\ Len(H.val) = nnz
              /\ H = ToCsr(SubSeq(buf, 1, nnz), mesh.NC)

C16_Witness ==
    /\ RanGeneral /\ pc = "built"
    /\ mesh.NC >= 2
    /\ nnz > 2 * mesh.NC
    /\ nnz < Len(buf)

\* the triplet list of the sequential batch loop over the whole grid
SequentialTriplets ==
    IF ran[1] = "filter_2d"
    THEN BatchTriplets2D(0, N2(mesh), self.rmin, mesh.nx, mesh.ny, mesh.hx, mesh.hy)
    ELSE BatchTriplets3D(0, N3(mesh), self.rmin, mesh.nx, mesh.ny, mesh.nz,
                         mesh.hx, mesh.hy, mesh.hz)

\* C17: with the batches (or, at a cap of one, the cells) of a structured
\* assembler processed in any order and their triplet lists merged in that
\* order, the returned H and Hs are those of the sequential order.
C17_OrderIndependent ==
    (Returned /\ RanStructured) =>
        LET seqH == ToCsr(SequentialTriplets, GridN)
        IN  /\ H = seqH
            /\ Hs = (IF ran[1] = "filter_2d"
                     THEN CooMatVecOnes(SequentialTriplets, GridN)
                     ELSE CsrMatVecOnes(seqH))

C17_Witness ==
    /\ Returned /\ RanStructured
    /\ Len(batches) >= 3
    /\ batches[1][1] > batches[2][1]
    /\ batches[3][1] = 0
    /\ trip # SequentialTriplets
    /\ Len(trip) > H.n

\* C18: on the grid of a structured assembler the index-to-coordinate map
\* and the coordinate-to-index formula are inverse to each other, in 2D and
\* in 3D: every in-range multi-index goes to a linear index in 0..N-1 that
\* linear_to_2d / linear_to_3d takes back to it, and every linear index in
\* 0..N-1 comes from the in-range multi-index it is mapped to; so a cell is
\* referenced as a column under its row number, and the triplet of a cell
\* with itself is the one on the diagonal.
C18_LinearizationInverse ==
    (RanStructured /\ pc # "failed") =>
        /\ ran[1] = "filter_2d" =>
              /\ \A i \in 0..(mesh.nx - 1) : \A j \in 0..(mesh.ny - 1) :
                    /\ to_linear_2d(i, j, mesh.ny) \in 0..(GridN - 1)
                    /\ linear_to_2d(to_linear_2d(i, j, mesh.ny), mesh.ny) = <<i, j>>
              /\ \A c \in 0..(GridN - 1) :
                    LET ij == linear_to_2d(c, mesh.ny)
                    IN  /\ ij[1] \in 0..(mesh.nx - 1) /\ ij[2] \in 0..(mesh.ny - 1)
                        /\ to_linear_2d(ij[1], ij[2], mesh.ny) = c
        /\ ran[1] = "filter_3d" =>
              /\ \A i \in 0..(mesh.nx - 1) : \A j \in 0..(mesh.ny - 1) :
                    \A k \in 0..(mesh.nz - 1) :
                        /\ to_linear_3d(i, j, k, mesh.ny, mesh.nz) \in 0..(GridN - 1)
                        /\ linear_to_3d(to_linear_3d(i, j, k, mesh.ny, mesh.nz),
                                        mesh.ny, mesh.nz) = <<i, j, k>>
              /\ \A c \in 0..(GridN - 1) :
                    LET c3 == linear_to_3d(c, mesh.ny, mesh.nz)
                    IN  /\ c3[1] \in 0..(mesh.nx - 1) /\ c3[2] \in 0..(mesh.ny - 1)
                        /\ c3[3] \in 0..(mesh.nz - 1)
                        /\ to_linear_3d(c3[1], c3[2], c3[3], mesh.ny, mesh.nz) = c
        /\ \A n \in 1..Len(trip) :
              (trip[n][3] = Fix(self.rmin)) <=> (trip[n][1] = trip[n][2])

C18_Witness ==
    /\ Returned /\ ran = <<"filter_2d">>
    /\ mesh.nx >= 2 /\ mesh.ny >= 2 /\ mesh.nx # mesh.ny
    /\ Len(trip) > H.n

====
